---- MODULE Spec2Model ----
(***************************************************************************)
(* Model of mangal's configuration engine (config.go: GetConfig,           *)
(* ParseConfig, ValidateConfig, DefaultConfig) and of the commands of      *)
(* cmd.go that use it (the root command and `init`).                       *)
(*                                                                         *)
(* Go values are represented as follows.                                   *)
(*   - a pointer is a sequence: <<>> is nil, <<v>> points to v;            *)
(*   - a string that the code only compares is a TLA+ string;              *)
(*   - a chapter-name template, which the code searches with               *)
(*     strings.Contains, is the sequence of its characters;                *)
(*   - a Go map is a TLA+ function; the order in which `range` visits it   *)
(*     is not defined by the language and is an input of ParseConfig.      *)
(***************************************************************************)
EXTENDS Naturals, Sequences, FiniteSets

(***************************************************************************)
(* Bounds of the model.                                                    *)
(***************************************************************************)
\* longest `use` list a document is given
MaxUse == 2
\* number of lines of the Default Document a document may have changed
MaxEdits == 2
\* longest Config.Scrapers given to ValidateConfig directly
MaxScrapers == 2
\* number of times ValidateConfig is called on one Config
MaxCalls == 2

(***************************************************************************)
(* Strings.                                                                *)
(***************************************************************************)
\* strings.Contains on character sequences
StrContains(s, sub) ==
    \E i \in 1..(Len(s) + 1) :
        /\ i + Len(sub) - 1 <= Len(s)
        /\ SubSeq(s, i, i + Len(sub) - 1) = sub

\* "[%0d] %s"
TplPadded == <<"[", "%", "0", "d", "]", " ", "%", "s">>
\* "[%d] %s"
TplPlain == <<"[", "%", "d", "]", " ", "%", "s">>
\* "%d", "%s", "%0d", "chapter one", "50%", ""
TplD == <<"%", "d">>
TplS == <<"%", "s">>
TplZeroD == <<"%", "0", "d">>
TplNone == <<"c", "h", "a", "p", "t", "e", "r", " ", "o", "n", "e">>
TplPercent == <<"5", "0", "%">>
TplEmpty == <<>>

PDF == "pdf"
CBZ == "cbz"
Zip == "zip"
Plain == "plain"
Epub == "epub"

\* the formats the validator accepts
AvailableFormats == <<PDF, CBZ, Zip, Plain, Epub>>

\* Contains[T](slice, elem)
Contains(slice, elem) == \E i \in 1..Len(slice) : slice[i] = elem

\* IfElse(cond, a, b)
IfElse(cond, a, b) == IF cond THEN a ELSE b

(***************************************************************************)
(* Pointers.                                                               *)
(***************************************************************************)
Nil == <<>>
Ref(v) == <<v>>
Deref(p) == p[1]

(***************************************************************************)
(* Documents: the bytes of a configuration file.                           *)
(*   syntaxOK  whether the bytes are well-formed TOML                      *)
(*   omit      the keys (or sections) the document does not give           *)
(*   val       the values of the keys it gives                             *)
(***************************************************************************)
SourceNames == {"a", "b", "manganelo"}

ScalarKeys ==
    {"format", "use_custom_reader", "custom_reader", "download_path",
     "chapter_name_template", "cache_images", "ui.chapter_name_template",
     "ui.fullscreen", "ui.prompt", "ui.placeholder", "ui.mark", "ui.title"}

SectionKeys == {"use", "sources", "anilist"}

\* UI struct, zero value
ZeroUI ==
    [Fullscreen |-> FALSE, Prompt |-> "", Title |-> "", Placeholder |-> "",
     Mark |-> "", ChapterNameTemplate |-> TplEmpty]

\* the [sources.manganelo] section of the Default Document; SettingsOK stands
\* for the settings of the section (urls, selectors, delay) being the ones
\* the source's own check accepts
DefaultSource == [Name |-> "", SettingsOK |-> TRUE]

\* a Default Document whose `use` names a source it has no section for
DefaultConfigBytesWrongUse ==
    [syntaxOK |-> TRUE,
     omit |-> {},
     val |->
        [Use |-> <<"manganato">>,
         Format |-> "pdf",
         UseCustomReader |-> FALSE,
         CustomReader |-> "zathura",
         Path |-> ".",
         ChapterNameTemplate |-> TplPadded,
         CacheImages |-> FALSE,
         Anilist |-> [Enabled |-> FALSE, ID |-> "", Secret |-> "",
                      MarkDownloaded |-> FALSE],
         UI |-> [ChapterNameTemplate |-> TplPlain,
                 Fullscreen |-> TRUE,
                 Prompt |-> ">",
                 Placeholder |-> "What shall we look for?",
                 Mark |-> "mark",
                 Title |-> "Mangal"],
         Sources |-> [n \in {"manganelo"} |-> DefaultSource]]]

\* DefaultConfigBytes
DefaultConfigBytes ==
    [syntaxOK |-> TRUE,
     omit |-> {},
     val |->
        [Use |-> <<"manganelo">>,
         Format |-> "pdf",
         UseCustomReader |-> FALSE,
         CustomReader |-> "zathura",
         Path |-> ".",
         ChapterNameTemplate |-> TplPadded,
         CacheImages |-> FALSE,
         Anilist |-> [Enabled |-> FALSE, ID |-> "", Secret |-> "",
                      MarkDownloaded |-> FALSE],
         UI |-> [ChapterNameTemplate |-> TplPlain,
                 Fullscreen |-> TRUE,
                 Prompt |-> ">",
                 Placeholder |-> "What shall we look for?",
                 Mark |-> "mark",
                 Title |-> "Mangal"],
         Sources |-> [n \in {"manganelo"} |-> DefaultSource]]]

\* toml.Unmarshal into tempConfig: a syntax error, or every key the document
\* gives, the zero value for every key it omits
Unmarshal(bytes) ==
    LET v == bytes.val
        has(k) == k \notin bytes.omit
    IN  IF ~bytes.syntaxOK
        THEN [err |-> TRUE, tempConf |-> <<>>]
        ELSE [err |-> FALSE,
              tempConf |->
                [Use |-> IF has("use") THEN v.Use ELSE <<>>,
                 Format |-> IF has("format") THEN v.Format ELSE "",
                 UI |->
                    [Fullscreen |-> IF has("ui.fullscreen")
                                    THEN v.UI.Fullscreen ELSE FALSE,
                     Prompt |-> IF has("ui.prompt") THEN v.UI.Prompt ELSE "",
                     Title |-> IF has("ui.title") THEN v.UI.Title ELSE "",
                     Placeholder |-> IF has("ui.placeholder")
                                     THEN v.UI.Placeholder ELSE "",
                     Mark |-> IF has("ui.mark") THEN v.UI.Mark ELSE "",
                     ChapterNameTemplate |->
                        IF has("ui.chapter_name_template")
                        THEN v.UI.ChapterNameTemplate ELSE TplEmpty],
                 UseCustomReader |-> IF has("use_custom_reader")
                                     THEN v.UseCustomReader ELSE FALSE,
                 CustomReader |-> IF has("custom_reader")
                                  THEN v.CustomReader ELSE "",
                 Path |-> IF has("download_path") THEN v.Path ELSE "",
                 CacheImages |-> IF has("cache_images")
                                 THEN v.CacheImages ELSE FALSE,
                 Sources |-> IF has("sources") THEN v.Sources ELSE <<>>,
                 ChapterNameTemplate |->
                    IF has("chapter_name_template")
                    THEN v.ChapterNameTemplate ELSE TplEmpty,
                 Anilist |-> IF has("anilist") THEN v.Anilist
                             ELSE [Enabled |-> FALSE, ID |-> "", Secret |-> "",
                                   MarkDownloaded |-> FALSE]]]

(***************************************************************************)
(* The documents considered: the Default Document with up to               *)
(* MaxEdits of its lines (or its [anilist] section) changed, and the       *)
(* Default Document with another `use` list and other source sections.     *)
(***************************************************************************)
\* sequences over S of length at most n
RECURSIVE SeqsUpTo(_, _)
SeqsUpTo(S, n) ==
    IF n = 0 THEN {<<>>}
    ELSE LET shorter == SeqsUpTo(S, n - 1)
         IN  shorter \cup {Append(q, x) : q \in shorter, x \in S}

AnilistSections ==
    [Enabled : BOOLEAN, ID : {"", "id"}, Secret : {"", "secret"},
     MarkDownloaded : {TRUE}]

\* the documents that differ from `bytes` in one line (or one section)
EditedOnce(bytes) ==
    {[bytes EXCEPT !.syntaxOK = FALSE]}
    \cup {[bytes EXCEPT !.omit = @ \cup {k}] : k \in ScalarKeys \cup SectionKeys}
    \cup {[bytes EXCEPT !.val.Format = f] : f \in {"", "cbz", "djvu"}}
    \cup {[bytes EXCEPT !.val.UseCustomReader = TRUE],
          [bytes EXCEPT !.val.CustomReader = ""],
          [bytes EXCEPT !.val.Path = "/manga"],
          [bytes EXCEPT !.val.CacheImages = TRUE],
          [bytes EXCEPT !.val.UI.Fullscreen = FALSE],
          [bytes EXCEPT !.val.UI.Prompt = "$"]}
    \cup {[bytes EXCEPT !.val.ChapterNameTemplate = t] :
            t \in {TplEmpty, TplZeroD, TplNone, TplPercent}}
    \cup {[bytes EXCEPT !.val.UI.ChapterNameTemplate = t] :
            t \in {TplEmpty, TplNone}}
    \cup {[bytes EXCEPT !.val.Anilist = a] : a \in AnilistSections}

RECURSIVE EditedUpTo(_)
EditedUpTo(n) ==
    IF n = 0 THEN {DefaultConfigBytes}
    ELSE LET fewer == EditedUpTo(n - 1)
         IN  fewer \cup UNION {EditedOnce(b) : b \in fewer}

\* the [sources] tables a document may declare: any sections, at most one of
\* them with settings its source rejects
SourceTables ==
    UNION {{[n \in S |-> [DefaultSource EXCEPT !.SettingsOK = (n \notin B)]] :
                B \in {{}} \cup {{n} : n \in S}} :
           S \in SUBSET SourceNames}

SourceVariants ==
    {[DefaultConfigBytes EXCEPT !.val.Use = u, !.val.Sources = t,
                                !.val.CacheImages = c] :
        u \in SeqsUpTo(SourceNames, MaxUse), t \in SourceTables, c \in BOOLEAN}

Documents == EditedUpTo(MaxEdits) \cup SourceVariants

(***************************************************************************)
(* Errors and results.                                                     *)
(***************************************************************************)
NoError == [kind |-> "nil", msg |-> "", arg |-> ""]
NewError(m, a) == [kind |-> "error", msg |-> m, arg |-> a]
\* a nil pointer dereference: the call does not return
Panic == [kind |-> "panic", msg |-> "nil pointer dereference", arg |-> ""]

ErrNoSources == NewError("no manga sources listed", "")
ErrTemplate ==
    NewError("chapter name template should contain at least one %d, %0d or %s placeholder", "")
ErrAnilist == NewError("anilist is enabled but id or secret is not set", "")
ErrReader ==
    NewError("use_custom_reader is set to true but reader isn't specified", "")
ErrFormat(f) == NewError("unknown format", f)
ErrNilSource == NewError("internal error: scraper source is nil", "")
ErrSource(name) == NewError("invalid source", name)
ErrSyntax == NewError("toml: syntax error", "")
ErrClient == NewError("anilist client could not be created", "")

(***************************************************************************)
(* Collaborators of the configuration code.                                *)
(***************************************************************************)
\* NewAnilistClient(id, secret): a client holding the id and the secret, or
\* an error; `ok` is the outcome of the construction
NewAnilistClient(id, secret, ok) ==
    IF ok THEN [client |-> Ref([ID |-> id, Secret |-> secret]), err |-> NoError]
    ELSE [client |-> Nil, err |-> ErrClient]

\* MakeSourceScraper(&source): one scraper for the source, with its cache
\* directory set
MakeSourceScraper(source) ==
    [Source |-> Ref(source), CacheDir |-> "cache/mangal"]

\* ValidateSource(source): the source's own structural check
ValidateSource(source) ==
    IF source.SettingsOK THEN NoError ELSE ErrSource(source.Name)

(***************************************************************************)
(* ParseConfig.                                                            *)
(***************************************************************************)
\* the orders in which `range` may visit the keys of a map
IterationOrders(m) ==
    LET keys == DOMAIN m
    IN  {o \in [1..Cardinality(keys) -> keys] :
            \A i, j \in 1..Cardinality(keys) : o[i] = o[j] => i = j}

\* Config, zero value (var conf Config)
ZeroConfig ==
    [Scrapers |-> <<>>,
     Format |-> "",
     UI |-> ZeroUI,
     Anilist |-> [Client |-> Nil, Enabled |-> FALSE, MarkDownloaded |-> FALSE],
     UseCustomReader |-> FALSE,
     CustomReader |-> "",
     Path |-> "",
     CacheImages |-> FALSE,
     ChapterNameTemplate |-> TplEmpty]

\* a loop over `use` instead, one scraper per listed name that has a section
RECURSIVE ConvertSourcesPerUse(_, _, _, _)
ConvertSourcesPerUse(order, sources, use, cacheImages) ==
    IF use = <<>> THEN <<>>
    ELSE LET rest == ConvertSourcesPerUse(order, sources, Tail(use), cacheImages)
         IN  IF Head(use) \notin DOMAIN sources THEN rest
             ELSE <<Ref([Source |-> Ref([sources[Head(use)] EXCEPT
                                            !.Name = Head(use)]),
                         CacheDir |-> ""])>> \o rest

\* the loop over tempConf.Sources, which visits the sections in `order`
RECURSIVE ConvertSources(_, _, _, _)
ConvertSources(order, sources, use, cacheImages) ==
    IF order = <<>> THEN <<>>
    ELSE LET sourceName == Head(order)
             source == [sources[sourceName] EXCEPT !.Name = sourceName]
             made == MakeSourceScraper(source)
             scraper == IF ~cacheImages THEN [made EXCEPT !.CacheDir = ""]
                        ELSE made
             rest == ConvertSources(Tail(order), sources, use, cacheImages)
         IN  IF ~Contains(use, sourceName) THEN rest
             ELSE <<Ref(scraper)>> \o rest

\* conf.UI: tempConf.UI, its empty chapter-name template replaced
UIOf(tempConf) ==
    [tempConf.UI EXCEPT
        !.ChapterNameTemplate = IF @ = TplEmpty THEN TplPlain ELSE @]

\* the format taken as written, empty when the document gives none
FormatVerbatim(tempConf) == tempConf.Format

\* conf.Format: "Default format is pdf"
FormatOf(tempConf) == IfElse(tempConf.Format = "", PDF, tempConf.Format)

\* conf.ChapterNameTemplate
ChapterNameTemplateOf(tempConf) ==
    IF tempConf.ChapterNameTemplate # TplEmpty
    THEN tempConf.ChapterNameTemplate
    ELSE TplPadded

\* the client stored, the integration left switched off
AnilistLeftDisabled(tempConf, client) ==
    [Client |-> client, Enabled |-> FALSE,
     MarkDownloaded |-> tempConf.Anilist.MarkDownloaded]

\* conf.Anilist of a document that enables Anilist, the client constructed
AnilistOf(tempConf, client) ==
    [Client |-> client, Enabled |-> TRUE,
     MarkDownloaded |-> tempConf.Anilist.MarkDownloaded]

\* ParseConfig(configString); `order` is the order in which the sources map
\* is visited and `clientOK` the outcome of NewAnilistClient
ParseConfig(configString, order, clientOK) ==
    LET parsed == Unmarshal(configString)
        tempConf == parsed.tempConf
        made == NewAnilistClient(tempConf.Anilist.ID, tempConf.Anilist.Secret,
                                 clientOK)
        conf ==
            [ZeroConfig EXCEPT
                !.CacheImages = tempConf.CacheImages,
                !.Scrapers = ConvertSources(order, tempConf.Sources,
                                            tempConf.Use, tempConf.CacheImages),
                !.UI = UIOf(tempConf),
                !.Path = tempConf.Path,
                !.Format = FormatOf(tempConf),
                !.UseCustomReader = tempConf.UseCustomReader,
                !.CustomReader = tempConf.CustomReader,
                !.ChapterNameTemplate = ChapterNameTemplateOf(tempConf)]
    IN  IF parsed.err THEN [conf |-> Nil, err |-> ErrSyntax]
        ELSE IF tempConf.Anilist.Enabled
        THEN IF made.err # NoError THEN [conf |-> Nil, err |-> made.err]
             ELSE [conf |-> Ref([conf EXCEPT
                                    !.Anilist = AnilistOf(tempConf, made.client)]),
                   err |-> NoError]
        ELSE [conf |-> Ref(conf), err |-> NoError]

\* the sources map of a document, as ParseConfig sees it
SourcesOf(bytes) ==
    IF bytes.syntaxOK THEN Unmarshal(bytes).tempConf.Sources ELSE <<>>

\* DefaultConfig(): ParseConfig(DefaultConfigBytes), its error dropped
DefaultConfig ==
    LET order == CHOOSE o \in IterationOrders(SourcesOf(DefaultConfigBytes)) : TRUE
    IN  ParseConfig(DefaultConfigBytes, order, TRUE).conf

(***************************************************************************)
(* GetConfig.                                                              *)
(***************************************************************************)
\* GetConfigPath(): the path under the user's configuration directory, or the
\* error of os.UserConfigDir
GetConfigPath(ok) ==
    IF ok THEN [path |-> "<UserConfigDir>/mangal/config.toml", err |-> NoError]
    ELSE [path |-> "", err |-> NewError("neither $XDG_CONFIG_HOME nor $HOME are defined", "")]

\* GetConfig that hands on what ParseConfig returned, error or not
GetConfigNoParseFallback(p, f, e) ==
    IF p = "" /\ GetConfigPath(e.pathOK).err # NoError THEN DefaultConfig
    ELSE IF ~e.existsOK \/ f = Nil THEN DefaultConfig
    ELSE IF ~e.readOK THEN DefaultConfig
    ELSE ParseConfig(Deref(f), e.order, e.clientOK).conf

\* GetConfig(path); f is the file at the path that is looked at (the default
\* path when p is empty) and e holds the outcomes of GetConfigPath,
\* Afero.Exists, Afero.ReadFile, the map iteration and NewAnilistClient
GetConfig(p, f, e) ==
    IF p = "" /\ GetConfigPath(e.pathOK).err # NoError THEN DefaultConfig
    ELSE IF ~e.existsOK \/ f = Nil THEN DefaultConfig
    ELSE IF ~e.readOK THEN DefaultConfig
    ELSE LET r == ParseConfig(Deref(f), e.order, e.clientOK)
         IN  IF r.err # NoError THEN DefaultConfig ELSE r.conf

\* the outcomes GetConfig(p) can meet on file f: a call that is not made has
\* no outcome, and keeps the value of NoEnv
GetConfigEnvs(p, f) ==
    {e \in [statOK : {TRUE}, pathOK : BOOLEAN,
            existsOK : BOOLEAN, readOK : BOOLEAN,
            order : IF f = Nil THEN {<<>>}
                    ELSE IterationOrders(SourcesOf(Deref(f))) \cup {<<>>},
            clientOK : BOOLEAN, mkdirOK : {TRUE}, createOK : {TRUE},
            writeOK : {TRUE}, startOK : {TRUE}] :
        LET pathCalled == p = ""
            existsCalled == pathCalled => e.pathOK
            readCalled == existsCalled /\ e.existsOK /\ f # Nil
            parseCalled == readCalled /\ e.readOK
            loopRuns == parseCalled /\ Deref(f).syntaxOK
            clientCalled == loopRuns /\ Unmarshal(Deref(f)).tempConf.Anilist.Enabled
        IN  /\ ~pathCalled => e.pathOK
            /\ ~existsCalled => e.existsOK
            /\ ~readCalled => e.readOK
            /\ IF loopRuns THEN e.order \in IterationOrders(SourcesOf(Deref(f)))
               ELSE e.order = <<>>
            /\ ~clientCalled => e.clientOK}

(***************************************************************************)
(* ValidateConfig.                                                         *)
(***************************************************************************)
\* validateChapterNameTemplate
validateChapterNameTemplate(template) ==
    IF /\ ~StrContains(template, TplD)
       /\ ~StrContains(template, TplS)
       /\ ~StrContains(template, TplZeroD)
    THEN ErrTemplate
    ELSE NoError

\* the loop over config.Scrapers
RECURSIVE ValidateScrapers(_)
ValidateScrapers(scrapers) ==
    IF scrapers = <<>> THEN NoError
    ELSE LET scraper == Head(scrapers)
         IN  IF scraper = Nil THEN Panic
             ELSE IF Deref(scraper).Source = Nil THEN ErrNilSource
             ELSE IF ValidateSource(Deref(Deref(scraper).Source)) # NoError
             THEN ValidateSource(Deref(Deref(scraper).Source))
             ELSE ValidateScrapers(Tail(scrapers))

\* the checks with the format looked at before the custom reader
ValidateConfigFormatFirst(config) ==
    IF Len(config.Scrapers) = 0 THEN ErrNoSources
    ELSE IF validateChapterNameTemplate(config.ChapterNameTemplate) # NoError
    THEN validateChapterNameTemplate(config.ChapterNameTemplate)
    ELSE IF validateChapterNameTemplate(config.UI.ChapterNameTemplate) # NoError
    THEN validateChapterNameTemplate(config.UI.ChapterNameTemplate)
    ELSE IF config.Anilist.Enabled /\ config.Anilist.Client = Nil THEN Panic
    ELSE IF /\ config.Anilist.Enabled
            /\ \/ Deref(config.Anilist.Client).ID = ""
               \/ Deref(config.Anilist.Client).Secret = ""
    THEN ErrAnilist
    ELSE IF ~Contains(AvailableFormats, config.Format)
    THEN ErrFormat(config.Format)
    ELSE IF config.UseCustomReader /\ config.CustomReader = "" THEN ErrReader
    ELSE ValidateScrapers(config.Scrapers)

\* ValidateConfig(config), config a Config value
ValidateConfig(config) ==
    IF Len(config.Scrapers) = 0 THEN ErrNoSources
    ELSE IF validateChapterNameTemplate(config.ChapterNameTemplate) # NoError
    THEN validateChapterNameTemplate(config.ChapterNameTemplate)
    ELSE IF validateChapterNameTemplate(config.UI.ChapterNameTemplate) # NoError
    THEN validateChapterNameTemplate(config.UI.ChapterNameTemplate)
    ELSE IF config.Anilist.Enabled /\ config.Anilist.Client = Nil THEN Panic
    ELSE IF /\ config.Anilist.Enabled
            /\ \/ Deref(config.Anilist.Client).ID = ""
               \/ Deref(config.Anilist.Client).Secret = ""
    THEN ErrAnilist
    ELSE IF config.UseCustomReader /\ config.CustomReader = "" THEN ErrReader
    ELSE IF ~Contains(AvailableFormats, config.Format)
    THEN ErrFormat(config.Format)
    ELSE ValidateScrapers(config.Scrapers)

(***************************************************************************)
(* State.                                                                  *)
(*   pc          position of the command or call being run                 *)
(*   path        the path given (--config, or GetConfig's argument)        *)
(*   force       the --force flag of `init`                                *)
(*   file        the file at the configuration path: Nil when there is     *)
(*               none, else a reference to its bytes                       *)
(*   env         the outcomes of the calls into the environment made by    *)
(*               the last step                                             *)
(*   UserConfig  the configuration held (the global UserConfig)            *)
(*   results     the errors returned so far, oldest first                  *)
(*   program     how the interactive program was started, "none" before    *)
(*   fileBefore  the file as it was when the command started               *)
(***************************************************************************)
VARIABLES pc, path, force, file, env, UserConfig, results, program, fileBefore

vars == <<pc, path, force, file, env, UserConfig, results, program, fileBefore>>

NoEnv ==
    [statOK |-> TRUE, pathOK |-> TRUE, existsOK |-> TRUE,
     readOK |-> TRUE,
     order |-> <<>>, clientOK |-> TRUE, mkdirOK |-> TRUE, createOK |-> TRUE,
     writeOK |-> TRUE, startOK |-> TRUE]

(***************************************************************************)
(* SpecParse: ParseConfig applied to a document.                           *)
(***************************************************************************)
InitParse ==
    /\ pc = "parse"
    /\ path = ""
    /\ force = FALSE
    /\ file \in {Ref(d) : d \in Documents}
    /\ env = NoEnv
    /\ UserConfig = Nil
    /\ results = <<>>
    /\ program = "none"
    /\ fileBefore = file

CallParseConfig ==
    /\ pc = "parse"
    /\ \E order \in IterationOrders(SourcesOf(Deref(file))), clientOK \in BOOLEAN :
        LET r == ParseConfig(Deref(file), order, clientOK)
        IN  /\ UserConfig' = r.conf
            /\ results' = <<r.err>>
            /\ env' = [env EXCEPT !.order = order, !.clientOK = clientOK]
    /\ pc' = "parsed"
    /\ UNCHANGED <<path, force, file, program, fileBefore>>

NextParse == CallParseConfig

SpecParse == InitParse /\ [][NextParse]_vars

(***************************************************************************)
(* Claims about ParseConfig (SpecParse).                                   *)
(***************************************************************************)
Parsed == pc = "parsed" /\ UserConfig # Nil

\* what the document under `file` unmarshals to
TempConfOfFile == Unmarshal(Deref(file)).tempConf

\* the names of the scrapers of a Config, in the order of Config.Scrapers
ScraperNames(conf) ==
    [i \in 1..Len(conf.Scrapers) |->
        Deref(Deref(conf.Scrapers[i]).Source).Name]

\* the first position of x in seq
FirstIndex(seq, x) ==
    CHOOSE i \in 1..Len(seq) : seq[i] = x /\ \A j \in 1..(i - 1) : seq[j] # x

\* C2: the scrapers built by ParseConfig follow the order of `use`: of two
\* scrapers, the one whose name comes first in `use` comes first in
\* Config.Scrapers.
C2_ScrapersFollowUseOrder ==
    Parsed =>
        LET names == ScraperNames(Deref(UserConfig))
            use == TempConfOfFile.Use
        IN  \A i, j \in 1..Len(names) :
                i < j => FirstIndex(use, names[i]) < FirstIndex(use, names[j])

\* the value a Config holds for a key of the document
FieldOf(conf, k) ==
    CASE k = "format" -> conf.Format
      [] k = "use_custom_reader" -> conf.UseCustomReader
      [] k = "custom_reader" -> conf.CustomReader
      [] k = "download_path" -> conf.Path
      [] k = "chapter_name_template" -> conf.ChapterNameTemplate
      [] k = "cache_images" -> conf.CacheImages
      [] k = "ui.chapter_name_template" -> conf.UI.ChapterNameTemplate
      [] k = "ui.fullscreen" -> conf.UI.Fullscreen
      [] k = "ui.prompt" -> conf.UI.Prompt
      [] k = "ui.placeholder" -> conf.UI.Placeholder
      [] k = "ui.mark" -> conf.UI.Mark
      [] k = "ui.title" -> conf.UI.Title

\* the zero value of the Go field a key is read into
ZeroOf(k) ==
    CASE k \in {"use_custom_reader", "cache_images", "ui.fullscreen"} -> FALSE
      [] k \in {"chapter_name_template", "ui.chapter_name_template"} -> TplEmpty
      [] OTHER -> ""

\* the keys whose omission ParseConfig makes up for
DefaultedKeys == {"format", "chapter_name_template", "ui.chapter_name_template"}

\* C3 as stated: every optional key the document omits, other than the
\* image-cache flag, has in the parsed Config the value the Default Document
\* gives it.
C3_OmittedFieldsGetDefaults ==
    Parsed =>
        \A k \in (Deref(file).omit \cap ScalarKeys) \ {"cache_images"} :
            FieldOf(Deref(UserConfig), k) = FieldOf(Deref(DefaultConfig), k)

\* C3, amended: an omitted format or chapter-name template (global or UI) has
\* the Default Document's value; every other omitted optional key is left at
\* the zero value of its field.
C3_OnlyThreeFieldsGetDefaults ==
    Parsed =>
        \A k \in Deref(file).omit \cap ScalarKeys :
            FieldOf(Deref(UserConfig), k) =
                IF k \in DefaultedKeys THEN FieldOf(Deref(DefaultConfig), k)
                ELSE ZeroOf(k)

\* parsed: a document that omits the format, which came out as pdf, and the
\* download path, which came out empty though the Default Document gives "."
C3_Witness ==
    /\ Parsed
    /\ {"format", "download_path"} \subseteq Deref(file).omit
    /\ Deref(UserConfig).Format = PDF
    /\ Deref(UserConfig).Path = ""
    /\ Deref(DefaultConfig).Path = "."

\* the names `use` lists that also have a [sources.<name>] section
EnabledWithSection(tempConf) ==
    {tempConf.Use[i] : i \in 1..Len(tempConf.Use)} \cap DOMAIN tempConf.Sources

C9_WitnessSkipped ==
    /\ Parsed
    /\ LET t == TempConfOfFile
       IN  /\ \E i \in 1..Len(t.Use) : t.Use[i] \notin DOMAIN t.Sources
           /\ Len(Deref(UserConfig).Scrapers) = 1

(***************************************************************************)
(* SpecValidate: ValidateConfig called, up to MaxCalls times, on a Config  *)
(* value of any shape, the shapes ParseConfig never builds included.       *)
(***************************************************************************)
ScraperPointers ==
    {Nil,
     Ref([Source |-> Nil, CacheDir |-> ""]),
     Ref([Source |-> Ref([Name |-> "a", SettingsOK |-> TRUE]), CacheDir |-> ""]),
     Ref([Source |-> Ref([Name |-> "b", SettingsOK |-> FALSE]), CacheDir |-> ""])}

ClientPointers ==
    {Nil} \cup {Ref(c) : c \in [ID : {"", "id"}, Secret : {"", "secret"}]}

Configs ==
    [Scrapers : SeqsUpTo(ScraperPointers, MaxScrapers),
     Format : {PDF, CBZ, "djvu"},
     UI : {[ZeroUI EXCEPT !.ChapterNameTemplate = t] : t \in {TplPlain, TplNone}},
     Anilist : [Client : ClientPointers, Enabled : BOOLEAN,
                MarkDownloaded : {FALSE}],
     UseCustomReader : BOOLEAN,
     CustomReader : {"", "zathura"},
     Path : {"."},
     CacheImages : {FALSE},
     ChapterNameTemplate : {TplPadded, TplD, TplS, TplZeroD, TplNone, TplPercent}]

InitValidate ==
    /\ pc = "validate"
    /\ path = ""
    /\ force = FALSE
    /\ file = Nil
    /\ env = NoEnv
    /\ UserConfig \in {Ref(c) : c \in Configs}
    /\ results = <<>>
    /\ program = "none"
    /\ fileBefore = file

\* one call of ValidateConfig(UserConfig); a nil dereference ends the process
CallValidateConfig ==
    /\ pc = "validate"
    /\ Len(results) < MaxCalls
    /\ LET r == ValidateConfig(Deref(UserConfig))
       IN  /\ results' = Append(results, r)
           /\ pc' = IF r = Panic THEN "panicked" ELSE "validate"
    /\ UNCHANGED <<path, force, file, env, UserConfig, program, fileBefore>>

NextValidate == CallValidateConfig

SpecValidate == InitValidate /\ [][NextValidate]_vars

(***************************************************************************)
(* Claims about ValidateConfig (SpecValidate).                             *)
(***************************************************************************)
\* a template holds %d, %s or %0d somewhere
HasPlaceholder(t) ==
    \E i \in 1..Len(t) :
        /\ t[i] = "%"
        /\ \/ i + 1 <= Len(t) /\ t[i + 1] \in {"d", "s"}
           \/ i + 2 <= Len(t) /\ t[i + 1] = "0" /\ t[i + 2] = "d"

\* a scraper the seventh rule rejects (an absent one cannot be looked at)
BadScraper(sp) ==
    \/ sp = Nil
    \/ Deref(sp).Source = Nil
    \/ ~Deref(Deref(sp).Source).SettingsOK

\* the seven rules, each as the condition under which it is violated
RuleViolated(c, n) ==
    CASE n = 1 -> c.Scrapers = <<>>
      [] n = 2 -> ~HasPlaceholder(c.ChapterNameTemplate)
      [] n = 3 -> ~HasPlaceholder(c.UI.ChapterNameTemplate)
      [] n = 4 -> /\ c.Anilist.Enabled
                  /\ \/ c.Anilist.Client = Nil
                     \/ Deref(c.Anilist.Client).ID = ""
                     \/ Deref(c.Anilist.Client).Secret = ""
      [] n = 5 -> c.UseCustomReader /\ c.CustomReader = ""
      [] n = 6 -> c.Format \notin {"pdf", "cbz", "zip", "plain", "epub"}
      [] n = 7 -> \E i \in 1..Len(c.Scrapers) : BadScraper(c.Scrapers[i])

ViolatedRules(c) == {n \in 1..7 : RuleViolated(c, n)}

EarliestViolated(c) ==
    CHOOSE n \in ViolatedRules(c) : \A m \in ViolatedRules(c) : n <= m

\* the error that belongs to a rule
ErrorOfRule(c, n) ==
    CASE n = 1 -> ErrNoSources
      [] n = 2 -> ErrTemplate
      [] n = 3 -> ErrTemplate
      [] n = 4 -> ErrAnilist
      [] n = 5 -> ErrReader
      [] n = 6 -> ErrFormat(c.Format)
      [] n = 7 ->
            LET i == CHOOSE k \in 1..Len(c.Scrapers) :
                        /\ BadScraper(c.Scrapers[k])
                        /\ \A j \in 1..(k - 1) : ~BadScraper(c.Scrapers[j])
                sp == c.Scrapers[i]
            IN  IF sp = Nil THEN Panic
                ELSE IF Deref(sp).Source = Nil THEN ErrNilSource
                ELSE ErrSource(Deref(Deref(sp).Source).Name)

\* C5: an error ValidateConfig returns is the error of the earliest violated
\* rule of the seven, and it returns no error exactly when no rule is
\* violated.
C5_FailFastInRuleOrder ==
    \A i \in 1..Len(results) :
        LET c == Deref(UserConfig)
            r == results[i]
        IN  /\ r.kind = "error" =>
                /\ ViolatedRules(c) # {}
                /\ r = ErrorOfRule(c, EarliestViolated(c))
            /\ r = NoError <=> ViolatedRules(c) = {}

\* validated: a Config that breaks the custom-reader rule, the format rule and
\* the source rule at once, and got the custom-reader error
C5_Witness ==
    /\ pc = "validate"
    /\ results # <<>>
    /\ {5, 6, 7} \subseteq ViolatedRules(Deref(UserConfig))
    /\ results[1] = ErrReader

\* validated: a Config whose only placeholder is %0d and that breaks no rule
C5_WitnessAccepted ==
    /\ pc = "validate"
    /\ results # <<>>
    /\ Deref(UserConfig).ChapterNameTemplate = TplZeroD
    /\ results[1] = NoError

\* C7: ValidateConfig returns, for every Config, an error or nothing, never
\* panics, and a second call on the same Config returns what the first did.
C7_ValidateNeverPanics ==
    /\ pc # "panicked"
    /\ \A i \in 1..Len(results) :
        /\ results[i].kind \in {"nil", "error"}
        /\ results[i] = results[1]

(***************************************************************************)
(* SpecLoad: GetConfig(path) on a file system that holds, or does not      *)
(* hold, a configuration file, followed by ValidateConfig on what it       *)
(* returned.                                                               *)
(***************************************************************************)
Paths == {"", "custom.toml"}

InitLoad ==
    /\ pc = "load"
    /\ path \in Paths
    /\ force = FALSE
    /\ file \in {Nil} \cup {Ref(d) : d \in Documents}
    /\ env = NoEnv
    /\ UserConfig = Nil
    /\ results = <<>>
    /\ program = "none"
    /\ fileBefore = file

CallGetConfig ==
    /\ pc = "load"
    /\ \E e \in GetConfigEnvs(path, file) :
        /\ env' = e
        /\ UserConfig' = GetConfig(path, file, e)
    /\ pc' = "loaded"
    /\ UNCHANGED <<path, force, file, results, program, fileBefore>>

ValidateLoaded ==
    /\ pc = "loaded"
    /\ UserConfig # Nil
    /\ LET r == ValidateConfig(Deref(UserConfig))
       IN  /\ results' = <<r>>
           /\ pc' = IF r = Panic THEN "panicked" ELSE "validated"
    /\ UNCHANGED <<path, force, file, env, UserConfig, program, fileBefore>>

NextLoad == CallGetConfig \/ ValidateLoaded

SpecLoad == InitLoad /\ [][NextLoad]_vars

(***************************************************************************)
(* Claims about GetConfig and the load-then-validate pipeline (SpecLoad).  *)
(***************************************************************************)
Loaded == pc \in {"loaded", "validated", "panicked"}

\* what ParseConfig returns for the file, under the outcomes met
ParsedFile == ParseConfig(Deref(file), env.order, env.clientOK)

\* the stages of GetConfig, each as the condition under which it failed
PathLookupFailed == path = "" /\ ~env.pathOK
ExistenceCheckFailed == ~env.existsOK \/ file = Nil
ReadFailed == ~env.readOK
\* the file was found and read
FileRead == ~PathLookupFailed /\ ~ExistenceCheckFailed /\ ~ReadFailed
ParseFailed == FileRead /\ ParsedFile.err # NoError

FellBack == PathLookupFailed \/ ExistenceCheckFailed \/ ReadFailed \/ ParseFailed

C1_WitnessFromFile ==
    /\ pc = "loaded"
    /\ ~FellBack
    /\ UserConfig # DefaultConfig

\* GetConfig fell back because the Anilist client could not be made
C1_WitnessClient ==
    /\ pc = "loaded"
    /\ FileRead
    /\ ParsedFile.err = ErrClient
    /\ UserConfig = DefaultConfig

\* rules 1 to 3 of ValidateConfig hold of a Config
PassesRulesBeforeAnilist(c) ==
    /\ c.Scrapers # <<>>
    /\ HasPlaceholder(c.ChapterNameTemplate)
    /\ HasPlaceholder(c.UI.ChapterNameTemplate)

\* a Config breaks none of the rules that do not concern Anilist
OtherwiseValid(c) == ViolatedRules(c) \subseteq {4}

\* the [anilist] section of the file leaves the id or the secret empty
AnilistIncomplete(a) == a.ID = "" \/ a.Secret = ""

\* C6 as stated: a document read by GetConfig that enables Anilist and leaves
\* the id or the secret empty fails validation with the Anilist error; one
\* that disables Anilist, leaves both empty and is otherwise valid passes.
C6_AnilistGating ==
    (pc = "validated" /\ FileRead /\ Deref(file).syntaxOK) =>
        LET a == TempConfOfFile.Anilist
        IN  /\ (a.Enabled /\ AnilistIncomplete(a)) => results[1] = ErrAnilist
            /\ (~a.Enabled /\ a.ID = "" /\ a.Secret = ""
                    /\ OtherwiseValid(Deref(UserConfig)))
                => results[1] = NoError

\* C6, amended: the Anilist error is what validation returns when, besides,
\* the client could be constructed and the document breaks none of the three
\* earlier rules (sources, both templates); when the client could not be
\* constructed GetConfig falls back to the default, which passes; a document
\* that disables Anilist and is otherwise valid passes.
C6_AnilistGatingWhenLoaded ==
    (pc = "validated" /\ FileRead /\ Deref(file).syntaxOK) =>
        LET a == TempConfOfFile.Anilist
        IN  /\ (a.Enabled /\ AnilistIncomplete(a) /\ ~ParseFailed
                    /\ PassesRulesBeforeAnilist(Deref(UserConfig)))
                => results[1] = ErrAnilist
            /\ (a.Enabled /\ ParseFailed) => results[1] = NoError
            /\ (~a.Enabled /\ OtherwiseValid(Deref(UserConfig)))
                => results[1] = NoError

\* validated: a document that enables Anilist with an empty secret, loaded
C6_Witness ==
    /\ pc = "validated"
    /\ ~FellBack
    /\ TempConfOfFile.Anilist.Enabled
    /\ TempConfOfFile.Anilist.ID = "id"
    /\ TempConfOfFile.Anilist.Secret = ""
    /\ results[1] = ErrAnilist

\* C8: the configuration assembled from the Default Document has a scraper,
\* placeholders in both templates, Anilist off, no custom reader and an
\* allowed format, and ValidateConfig returns no error for it; so it does for
\* every configuration GetConfig returns through a fallback.
C8_DefaultConfigIsValid ==
    /\ DefaultConfig # Nil
    /\ ViolatedRules(Deref(DefaultConfig)) = {}
    /\ ~Deref(DefaultConfig).Anilist.Enabled
    /\ ~Deref(DefaultConfig).UseCustomReader
    /\ ValidateConfig(Deref(DefaultConfig)) = NoError
    /\ (Loaded /\ results # <<>> /\ FellBack) => results[1] = NoError

\* validated: the default configuration, returned because there was no file
C8_Witness ==
    /\ pc = "validated"
    /\ file = Nil
    /\ UserConfig = DefaultConfig
    /\ results[1] = NoError

(***************************************************************************)
(* Spec: the root command (rootCmd.Run).                                   *)
(***************************************************************************)
Init ==
    /\ pc = "root"
    /\ path \in Paths
    /\ force = FALSE
    /\ file \in {Nil} \cup {Ref(d) : d \in Documents}
    /\ env = NoEnv
    /\ UserConfig = Nil
    /\ results = <<>>
    /\ program = "none"
    /\ fileBefore = file

\* Afero.Exists(config) fails: log.Fatal
RootAccessDenied ==
    /\ pc = "root"
    /\ env' = [env EXCEPT !.statOK = FALSE]
    /\ results' = <<NewError("access to config file denied", "")>>
    /\ pc' = "fatal"
    /\ UNCHANGED <<path, force, file, UserConfig, program, fileBefore>>

\* --config names a file that does not exist: log.Fatal
RootConfigMissing ==
    /\ pc = "root"
    /\ path # ""
    /\ file = Nil
    /\ results' = <<NewError("config at path doesn't exist", path)>>
    /\ pc' = "fatal"
    /\ UNCHANGED <<path, force, file, env, UserConfig, program, fileBefore>>

\* UserConfig = GetConfig(config), or GetConfig("") without --config
RootGetConfig ==
    /\ pc = "root"
    /\ path # "" => file # Nil
    /\ \E e \in GetConfigEnvs(path, file) :
        /\ env' = e
        /\ UserConfig' = GetConfig(path, file, e)
    /\ pc' = "configured"
    /\ UNCHANGED <<path, force, file, results, program, fileBefore>>

\* tea.NewProgram(...) and program.Start(); nothing looks at the
\* configuration in between
RootStartProgram ==
    /\ pc = "configured"
    /\ program' = IF Deref(UserConfig).UI.Fullscreen THEN "altscreen" ELSE "inline"
    /\ \E startOK \in BOOLEAN :
        /\ env' = [env EXCEPT !.startOK = startOK]
        /\ results' = IF startOK THEN results
                      ELSE <<NewError("program could not be run", "")>>
        /\ pc' = IF startOK THEN "finished" ELSE "fatal"
    /\ UNCHANGED <<path, force, file, UserConfig, fileBefore>>

Next ==
    \/ RootAccessDenied
    \/ RootConfigMissing
    \/ RootGetConfig
    \/ RootStartProgram

Spec == Init /\ [][Next]_vars

\* C4: the root command never starts the interactive program with a
\* configuration that ValidateConfig rejects.
C4_NeverStartsWithInvalidConfig ==
    program # "none" => ValidateConfig(Deref(UserConfig)) = NoError

(***************************************************************************)
(* SpecInit: the `init` command.                                           *)
(***************************************************************************)
\* what Afero.Create leaves at the path: an empty file
EmptyBytes ==
    [DefaultConfigBytes EXCEPT !.omit = ScalarKeys \cup SectionKeys]

\* a file that holds a beginning of the Default Document, cut inside a line
CutBytes == [EmptyBytes EXCEPT !.syntaxOK = FALSE]

InitInit ==
    /\ pc = "init"
    /\ path = ""
    /\ force \in BOOLEAN
    /\ file \in {Nil} \cup {Ref(d) : d \in Documents}
    /\ env = NoEnv
    /\ UserConfig = Nil
    /\ results = <<>>
    /\ program = "none"
    /\ fileBefore = file

\* GetConfigPath fails: log.Fatal before anything is looked at.  (GetBool
\* cannot fail: CmdExecute registers --force as a boolean flag.)
InitNoPath ==
    /\ pc = "init"
    /\ env' = [env EXCEPT !.pathOK = FALSE]
    /\ results' =
        <<NewError("Can't get config location, permission denied, probably", "")>>
    /\ pc' = "fatal"
    /\ UNCHANGED <<path, force, file, UserConfig, program, fileBefore>>

\* the decision with --force not looked at: an existing file is rewritten
InitDecideForceIgnored ==
    /\ pc = "init"
    /\ \E existsOK \in BOOLEAN :
        /\ env' = [env EXCEPT !.existsOK = existsOK]
        /\ pc' = "create"
        /\ results' = results
    /\ UNCHANGED <<path, force, file, UserConfig, program, fileBefore>>

\* Afero.Exists and the decision that follows it: createConfig, or log.Fatal
InitDecide ==
    /\ pc = "init"
    /\ \E existsOK \in BOOLEAN :
        LET exists == existsOK /\ file # Nil
        IN  /\ env' = [env EXCEPT !.existsOK = existsOK]
            /\ IF ~existsOK
               THEN IF force THEN pc' = "create" /\ results' = results
                    ELSE /\ pc' = "fatal"
                         /\ results' =
                            <<NewError("Can't understand if config exists or not", "")>>
               ELSE IF exists
               THEN IF force THEN pc' = "create" /\ results' = results
                    ELSE /\ pc' = "fatal"
                         /\ results' =
                            <<NewError("Config file already exists. Use --force to overwrite it", "")>>
               ELSE pc' = "create" /\ results' = results
    /\ UNCHANGED <<path, force, file, UserConfig, program, fileBefore>>

\* createConfig: MkdirAll, Create, Write, each of which may fail
InitCreateConfig ==
    /\ pc = "create"
    /\ \E mkdirOK, createOK, writeOK \in BOOLEAN :
        /\ ~mkdirOK => createOK /\ writeOK
        /\ ~createOK => writeOK
        /\ env' = [env EXCEPT !.mkdirOK = mkdirOK, !.createOK = createOK,
                              !.writeOK = writeOK]
        /\ IF ~mkdirOK \/ ~createOK
           THEN /\ file' = file
                /\ results' = <<NewError("Error while creating file", "")>>
                /\ pc' = "fatal"
           ELSE IF ~writeOK
           THEN /\ file' \in {Ref(EmptyBytes), Ref(CutBytes)}
                /\ results' = <<NewError("Error while writing to file", "")>>
                /\ pc' = "fatal"
           ELSE /\ file' = Ref(DefaultConfigBytes)
                /\ results' = results
                /\ pc' = "created"
    /\ UNCHANGED <<path, force, UserConfig, program, fileBefore>>

NextInit == InitNoPath \/ InitDecide \/ InitCreateConfig

SpecInit == InitInit /\ [][NextInit]_vars

\* the command has ended
InitEnded == pc \in {"created", "fatal"}

\* the file was found to exist, or whether it exists could not be found out
FoundOrUnknown == ~env.existsOK \/ fileBefore # Nil

\* C10 as stated, of the runs that found the configuration path: without
\* --force a file that exists (or may exist) is left as it was and the command
\* ends with a fatal error; with --force, or when the file is absent, the file
\* holds the Default Document afterwards.
C10_InitOverwritesOnlyWithForce ==
    (InitEnded /\ env.pathOK) =>
        /\ (FoundOrUnknown /\ ~force) => (pc = "fatal" /\ file = fileBefore)
        /\ (~FoundOrUnknown \/ force) => file = Ref(DefaultConfigBytes)

\* the path was found and createConfig's three calls succeeded
InitCallsSucceeded ==
    /\ env.pathOK
    /\ env.mkdirOK /\ env.createOK /\ env.writeOK

\* C10, amended: without --force a file that exists (or may exist) is left as
\* it was and the command ends with a fatal error; with --force, or when the
\* file is absent, the file holds the Default Document afterwards if the path
\* lookup and MkdirAll, Create and Write all succeed; if one of them fails the
\* command ends with a fatal error, and the file is as it was unless it is
\* the write that failed, which leaves it empty or cut short.
C10_InitOverwritesOnlyWithForceIfCallsSucceed ==
    InitEnded =>
        /\ (FoundOrUnknown /\ ~force) => (pc = "fatal" /\ file = fileBefore)
        /\ (~FoundOrUnknown \/ force) =>
            IF InitCallsSucceeded
            THEN pc = "created" /\ file = Ref(DefaultConfigBytes)
            ELSE /\ pc = "fatal"
                 /\ env.writeOK => file = fileBefore
                 /\ ~env.writeOK => file \in {Ref(EmptyBytes), Ref(CutBytes)}

\* init --force has replaced a file that was not the Default Document
C10_Witness ==
    /\ pc = "created"
    /\ force
    /\ fileBefore # Nil
    /\ fileBefore # Ref(DefaultConfigBytes)
    /\ file = Ref(DefaultConfigBytes)

\* init without --force has refused to touch an existing file
C10_WitnessRefused ==
    /\ pc = "fatal"
    /\ ~force
    /\ env.existsOK
    /\ fileBefore # Nil
    /\ file = fileBefore

====
